---- MODULE Spec2Model ----
(***************************************************************************)
(* A model of gevent-tftp (src/gtftp): one TFTP session, either a          *)
(* BaseReadHandler serving an RRQ or a BaseWriteHandler serving a WRQ,     *)
(* running against an arbitrary peer and network.                          *)
(*                                                                         *)
(* Datagrams that arrive on the session socket are byte sequences (bytes   *)
(* are the integers 0..255); the parsers of packet.py are operators on     *)
(* them.  Packets the session sends are recorded, in order, in `sent`.     *)
(* Time is counted in seconds: `timer` is the time elapsed since the       *)
(* gevent Timeout of the current _wait_ack / _wait_data was started.       *)
(***************************************************************************)
EXTENDS Integers, Sequences, FiniteSets, TLC

(***************************************************************************)
(* Bounds of the model.                                                    *)
(***************************************************************************)
MaxFileLen == 12
MaxRetries == 1
MaxTimeout == 1
MaxBufLen == 4
MaxReadSize == 3
MaxDatagrams == 2

(***************************************************************************)
(* Program constants.                                                      *)
(***************************************************************************)
OPCODE_RRQ == 1
OPCODE_WRQ == 2
OPCODE_DATA == 3
OPCODE_ACK == 4
OPCODE_ERROR == 5
OPCODE_OACK == 6
DEFAULT_BLKSIZE == 512
MAX_BLOCK_NUMBER == 65535
UNDEFINED == 0
FILE_NOT_FOUND == 1
ILLEGAL_OPERATION == 4
INVALID_OPTIONS == 8
ERR_CODES == 0..8
MIN_BLKSIZE == 8
MAX_BLKSIZE == 65464
MIN_TIMEOUT == 1
MAX_TIMEOUT == 255
SLURP_CHUNK == 512
LF == 10
CR == 13
NUL == 0

MODE_NETASCII == "netascii"
MODE_BINARY == "octet"

(***************************************************************************)
(* Byte strings.                                                           *)
(***************************************************************************)
Min(a, b) == IF a < b THEN a ELSE b

\* s[:n] for n >= 0
Take(s, n) == SubSeq(s, 1, Min(n, Len(s)))

\* s[n:] for n >= 0
Drop(s, n) == SubSeq(s, n + 1, Len(s))

\* s[a:b] for 0 <= a <= b
Slice(s, a, b) == SubSeq(s, a + 1, Min(b, Len(s)))

\* the value struct.unpack('!H', s) yields for a 2-byte string
U16(s) == s[1] * 256 + s[2]

\* struct.pack('!H', n)
PackU16(n) == << (n \div 256) % 256, n % 256 >>

\* python's None where an integer is expected
None == -1

(***************************************************************************)
(* int(v) and unicode(v) of the option values.                             *)
(***************************************************************************)
IsSpace(c) == c \in {9, 10, 11, 12, 13, 32}
IsDigit(c) == c \in 48..57

RECURSIVE LStrip(_)
LStrip(s) == IF Len(s) > 0 /\ IsSpace(s[1]) THEN LStrip(Tail(s)) ELSE s

RECURSIVE RStrip(_)
RStrip(s) == IF Len(s) > 0 /\ IsSpace(s[Len(s)]) THEN RStrip(SubSeq(s, 1, Len(s) - 1)) ELSE s

RECURSIVE DigitsValue(_)
DigitsValue(s) == IF Len(s) = 0 THEN 0
                  ELSE DigitsValue(SubSeq(s, 1, Len(s) - 1)) * 10 + (s[Len(s)] - 48)

\* int(v): [ok |-> FALSE] stands for the ValueError
PyInt(v) ==
    LET s == RStrip(LStrip(v))
        signed == Len(s) > 0 /\ s[1] \in {43, 45}
        digits == IF signed THEN Tail(s) ELSE s
    IN  IF Len(digits) = 0 \/ (\E i \in 1..Len(digits) : ~IsDigit(digits[i]))
        THEN [ok |-> FALSE, val |-> 0]
        ELSE [ok |-> TRUE,
              val |-> IF signed /\ s[1] = 45 THEN 0 - DigitsValue(digits)
                      ELSE DigitsValue(digits)]

RECURSIVE NatToStr(_)
NatToStr(n) == IF n < 10 THEN << 48 + n >>
               ELSE NatToStr(n \div 10) \o << 48 + (n % 10) >>

\* unicode(v) of an integer
PyUnicode(n) == IF n < 0 THEN << 45 >> \o NatToStr(0 - n) ELSE NatToStr(n)

(***************************************************************************)
(* Packets (packet.py).  One record shape for the six packet types.        *)
(***************************************************************************)
NoPacket == [op |-> 0, block |-> 0, data |-> << >>, code |-> 0, opts |-> {}]

Data(block_number, data) ==
    [op |-> OPCODE_DATA, block |-> block_number, data |-> data, code |-> 0, opts |-> {}]

ACK(block_number) ==
    [op |-> OPCODE_ACK, block |-> block_number, data |-> << >>, code |-> 0, opts |-> {}]

\* the message is kept in the data field
Error(code, message) ==
    [op |-> OPCODE_ERROR, block |-> 0, data |-> message, code |-> code, opts |-> {}]

\* options: a set of <<key, value>> pairs
OACK(options) ==
    [op |-> OPCODE_OACK, block |-> 0, data |-> << >>, code |-> 0, opts |-> options]

\* Data.blocksize
Blocksize(p) == Len(p.data)

\* results of the parsers: a packet, None, or an exception that is not caught
\* by the parser
Parsed(p) == [tag |-> "pkt", pkt |-> p, exc |-> ""]
ParseNone == [tag |-> "none", pkt |-> NoPacket, exc |-> ""]
ParseExc(e) == [tag |-> "exc", pkt |-> NoPacket, exc |-> e]

\* Error.parse(raw), safe = True
ErrorParse(raw) ==
    IF Len(Take(raw, 2)) # 2 THEN ParseExc("struct.error")
    ELSE IF U16(Take(raw, 2)) # OPCODE_ERROR THEN ParseNone
    ELSE IF Len(Slice(raw, 2, 4)) # 2 THEN ParseExc("struct.error")
    ELSE IF U16(Slice(raw, 2, 4)) \notin ERR_CODES THEN ParseNone
    ELSE LET message == Drop(raw, 4) IN
         IF Len(message) = 0 THEN ParseExc("IndexError")
         ELSE LET msg == IF message[Len(message)] = NUL
                         THEN SubSeq(message, 1, Len(message) - 1)
                         ELSE message
              IN  IF \E i \in 1..Len(msg) : msg[i] > 127
                  THEN ParseExc("UnicodeDecodeError")
                  ELSE Parsed(Error(U16(Slice(raw, 2, 4)), msg))

\* ACK.parse(raw), safe = True
AckParse(raw) ==
    IF Len(raw) # 4 THEN ParseNone
    ELSE IF U16(Take(raw, 2)) # OPCODE_ACK THEN ParseNone
    ELSE Parsed(ACK(U16(Slice(raw, 2, 4))))

\* Data.parse(raw), safe = True
DataParse(raw) ==
    IF Len(Take(raw, 2)) # 2 THEN ParseExc("struct.error")
    ELSE IF U16(Take(raw, 2)) # OPCODE_DATA THEN ParseNone
    ELSE IF Len(Slice(raw, 2, 4)) # 2 THEN ParseExc("struct.error")
    ELSE IF U16(Slice(raw, 2, 4)) = 0 THEN ParseNone
    ELSE Parsed(Data(U16(Slice(raw, 2, 4)), Drop(raw, 4)))

\* Data.raw(), ACK.raw(), Error.raw() of the peer's packets
DataRaw(block_number, data) == PackU16(OPCODE_DATA) \o PackU16(block_number) \o data
AckRaw(block_number) == PackU16(OPCODE_ACK) \o PackU16(block_number)
ErrorRaw(code, message) == PackU16(OPCODE_ERROR) \o PackU16(code) \o message \o << NUL >>

\* str.decode('ascii') fails
NonAsciiBytes(bytes) == \E i \in 1..Len(bytes) : bytes[i] > 127

(***************************************************************************)
(* Requests and the option lists of the codec.  Names, modes and values    *)
(* are byte strings.  A dictionary is the sequence of its <<key, value>>   *)
(* items in the order iteritems() yields them; a dictionary filled in that *)
(* order yields them in the same order again.                              *)
(***************************************************************************)
AsciiOctet == << 111, 99, 116, 101, 116 >>
AsciiNetascii == << 110, 101, 116, 97, 115, 99, 105, 105 >>

\* unicode.lower() of an ASCII string
Lower(str) == [i \in 1..Len(str) |-> IF str[i] \in 65..90 THEN str[i] + 32 ELSE str[i]]

\* Request(opcode, path, mode, options); the path is kept in the data field
Request(opcode, path, mode, options) ==
    [op |-> opcode, block |-> 0, data |-> path, code |-> 0, opts |-> options,
     mode |-> mode]

\* '\x00'.join(opts) + '\x00' over the items of a dictionary
RECURSIVE OptsRaw(_)
OptsRaw(items) ==
    IF items = << >> THEN << >>
    ELSE items[1][1] \o << NUL >> \o items[1][2] \o << NUL >> \o OptsRaw(Tail(items))

\* Request.raw()
RequestRaw(request) ==
    PackU16(request.op) \o request.data \o << NUL >> \o request.mode \o << NUL >>
        \o OptsRaw(request.opts)

\* OACK.raw()
OackRaw(options) == PackU16(OPCODE_OACK) \o OptsRaw(options)

\* filter(bool, s.split(u'\x00')): the maximal runs of bytes other than NUL
RECURSIVE Tokens(_, _)
Tokens(bytes, token) ==
    IF bytes = << >> THEN (IF token = << >> THEN << >> ELSE << token >>)
    ELSE IF bytes[1] = NUL
         THEN (IF token = << >> THEN << >> ELSE << token >>) \o Tokens(Tail(bytes), << >>)
    ELSE Tokens(Tail(bytes), Append(token, bytes[1]))

\* options[key] = value
DictSet(items, key, value) ==
    IF \E i \in 1..Len(items) : items[i][1] = key
    THEN [i \in 1..Len(items) |->
            IF items[i][1] = key THEN << key, value >> ELSE items[i]]
    ELSE Append(items, << key, value >>)

\* the while loop of the parsers over the option tokens, from position pos
\* (0-based); ok = FALSE is the IndexError of tokens[pos + 1]
RECURSIVE OptionsLoop(_, _, _)
OptionsLoop(tokens, pos, items) ==
    IF ~(pos < Len(tokens)) THEN [ok |-> TRUE, items |-> items]
    ELSE IF pos + 2 > Len(tokens) THEN [ok |-> FALSE, items |-> items]
    ELSE OptionsLoop(tokens, pos + 2,
                     DictSet(items, Lower(tokens[pos + 1]), tokens[pos + 2]))

\* Request.parse(raw), safe = True
RequestParse(raw) ==
    IF Len(Take(raw, 2)) # 2 THEN ParseExc("struct.error")
    ELSE IF U16(Take(raw, 2)) \notin {OPCODE_RRQ, OPCODE_WRQ} THEN ParseNone
    ELSE IF NonAsciiBytes(Drop(raw, 2)) THEN ParseExc("UnicodeDecodeError")
    ELSE LET tokens == Tokens(Drop(raw, 2), << >>) IN
         IF Len(tokens) < 2 \/ Len(tokens) % 2 # 0 THEN ParseNone
         ELSE LET mode == Lower(tokens[2])
                  o == OptionsLoop(tokens, 2, << >>)
              IN  IF mode \notin {AsciiNetascii, AsciiOctet}
                  THEN ParseExc("AssertionError")
                  ELSE Parsed(Request(U16(Take(raw, 2)), tokens[1], mode, o.items))

\* RRQ.parse(raw), WRQ.parse(raw), safe = True
RRQParse(raw) ==
    LET r == RequestParse(raw)
    IN  IF r.tag = "pkt" /\ r.pkt.op # OPCODE_RRQ THEN ParseNone ELSE r

WRQParse(raw) ==
    LET r == RequestParse(raw)
    IN  IF r.tag = "pkt" /\ r.pkt.op # OPCODE_WRQ THEN ParseNone ELSE r

\* OACK.parse(raw), safe = True
OackParse(raw) ==
    IF Len(Take(raw, 2)) # 2 THEN ParseExc("struct.error")
    ELSE IF U16(Take(raw, 2)) # OPCODE_OACK THEN ParseNone
    ELSE IF NonAsciiBytes(Drop(raw, 2)) THEN ParseExc("UnicodeDecodeError")
    ELSE LET o == OptionsLoop(Tokens(Drop(raw, 2), << >>), 0, << >>) IN
         IF ~o.ok THEN ParseExc("IndexError")
         ELSE IF o.items = << >> THEN ParseExc("AssertionError")
         ELSE Parsed(OACK(o.items))

\* raw() of a packet
Raw(p) ==
    CASE p.op \in {OPCODE_RRQ, OPCODE_WRQ} -> RequestRaw(p)
      [] p.op = OPCODE_DATA -> DataRaw(p.block, p.data)
      [] p.op = OPCODE_ACK -> AckRaw(p.block)
      [] p.op = OPCODE_ERROR -> ErrorRaw(p.code, p.data)
      [] p.op = OPCODE_OACK -> OackRaw(p.opts)

\* Packet.__eq__
PacketEq(p, other) == Raw(p) = Raw(other)

\* the parse method of a packet class
Parse(class, raw) ==
    CASE class = "Request" -> RequestParse(raw)
      [] class = "RRQ" -> RRQParse(raw)
      [] class = "WRQ" -> WRQParse(raw)
      [] class = "Data" -> DataParse(raw)
      [] class = "ACK" -> AckParse(raw)
      [] class = "Error" -> ErrorParse(raw)
      [] class = "OACK" -> OackParse(raw)

(***************************************************************************)
(* Targets.  A read target is the file the factory opened (examples:       *)
(* FileResponseData), wrapped in a NetasciiReader in netascii mode; a      *)
(* write target is a writable sink, wrapped in a NetasciiWriter in         *)
(* netascii mode.                                                          *)
(***************************************************************************)
NoTarget == [st |-> "none"]

\* the read target get_target returned, as _before_run leaves it
ReadTarget(content, sizeKnown, netascii) ==
    [st |-> "open", netascii |-> netascii, content |-> content, pos |-> 0,
     sizeKnown |-> sizeKnown, buffer |-> << >>, slurped |-> FALSE,
     slurp |-> << >>, spos |-> 0, size |-> None, reads |-> 0]

\* the write target get_target returned, as _before_run leaves it
WriteTarget(netascii) ==
    [st |-> "open", netascii |-> netascii, written |-> << >>]

\* FileResponseData.read(n): <<bytes, target'>>; a negative n reads to EOF
FileRead(t, n) ==
    LET rest == Len(t.content) - t.pos
        k == IF n < 0 THEN rest ELSE Min(n, rest)
    IN  << SubSeq(t.content, t.pos + 1, t.pos + k), [t EXCEPT !.pos = t.pos + k] >>

\* the for loop of NetasciiReader.read over the bytes the reader returned
RECURSIVE NetasciiEncodeChars(_)
NetasciiEncodeChars(chars) ==
    IF Len(chars) = 0 THEN << >>
    ELSE (IF chars[1] = LF THEN << CR, LF >>
          ELSE IF chars[1] = CR THEN << CR, NUL >>
          ELSE << chars[1] >>) \o NetasciiEncodeChars(Tail(chars))

\* a read that forgets the bytes beyond `size`
NetasciiReadDropsOverflow(t, size) ==
    IF t.slurped
    THEN LET k == Min(size, Len(t.slurp) - t.spos)
         IN  << SubSeq(t.slurp, t.spos + 1, t.spos + k), [t EXCEPT !.spos = t.spos + k] >>
    ELSE LET r == FileRead(t, size - Len(t.buffer))
             data == t.buffer \o NetasciiEncodeChars(r[1])
         IN  << Take(data, size), [r[2] EXCEPT !.buffer = << >>] >>

\* NetasciiReader.read(size), size >= 0: <<bytes, target'>>
NetasciiRead(t, size) ==
    IF t.slurped
    THEN LET k == Min(size, Len(t.slurp) - t.spos)
         IN  << SubSeq(t.slurp, t.spos + 1, t.spos + k), [t EXCEPT !.spos = t.spos + k] >>
    ELSE LET r == FileRead(t, size - Len(t.buffer))
             data == t.buffer \o NetasciiEncodeChars(r[1])
         IN  << Take(data, size), [r[2] EXCEPT !.buffer = Drop(data, size)] >>

\* the while loop of NetasciiReader.size: <<slurp, target'>>
RECURSIVE SlurpLoop(_, _)
SlurpLoop(t, slurp) ==
    LET r == NetasciiRead(t, SLURP_CHUNK)
    IN  IF Len(r[1]) = 0 THEN << slurp, r[2] >>
        ELSE SlurpLoop(r[2], slurp \o r[1])

\* a size() that leaves the side buffer positioned at its end
NetasciiSizeNoSeek(t) ==
    IF t.size # None THEN << t.size, t >>
    ELSE LET r == SlurpLoop(t, << >>)
         IN  << Len(r[1]),
                [r[2] EXCEPT !.slurped = TRUE, !.slurp = r[1], !.spos = Len(r[1]),
                             !.size = Len(r[1])] >>

\* NetasciiReader.size(): <<size, target'>>
NetasciiSize(t) ==
    IF t.size # None THEN << t.size, t >>
    ELSE LET r == SlurpLoop(t, << >>)
         IN  << Len(r[1]),
                [r[2] EXCEPT !.slurped = TRUE, !.slurp = r[1], !.spos = 0,
                             !.size = Len(r[1])] >>

\* self._target.read(size) of the read session
TargetRead(t, size) ==
    LET r == IF t.netascii THEN NetasciiRead(t, size) ELSE FileRead(t, size)
    IN  << r[1], [r[2] EXCEPT !.reads = t.reads + 1] >>

\* self._target.size() of the read session; None when the target reports no size
TargetSize(t) ==
    IF t.netascii THEN NetasciiSize(t)
    ELSE << IF t.sizeKnown THEN Len(t.content) ELSE None, t >>

\* the while loop of NetasciiWriter.write; ok = FALSE is the IndexError of
\* data[idx+1] past the end of the buffer
RECURSIVE NetasciiDecodeLoop(_, _, _)
NetasciiDecodeLoop(data, idx, enc_data) ==
    IF ~(idx < Len(data)) THEN [ok |-> TRUE, out |-> enc_data]
    ELSE IF idx + 1 >= Len(data) THEN [ok |-> FALSE, out |-> enc_data]
    ELSE LET char == data[idx + 1]
             next_char == data[idx + 2]
         IN  IF char = CR /\ next_char = LF
             THEN NetasciiDecodeLoop(data, idx + 2, Append(enc_data, LF))
             ELSE IF char = CR /\ next_char = NUL
             THEN NetasciiDecodeLoop(data, idx + 2, Append(enc_data, CR))
             ELSE NetasciiDecodeLoop(data, idx + 1, Append(enc_data, char))

\* self._target.write(data) of the write session: [ok, target']
TargetWrite(t, data) ==
    IF t.netascii
    THEN LET r == NetasciiDecodeLoop(data, 0, << >>)
         IN  IF r.ok THEN [ok |-> TRUE, target |-> [t EXCEPT !.written = t.written \o r.out]]
             ELSE [ok |-> FALSE, target |-> t]
    ELSE [ok |-> TRUE, target |-> [t EXCEPT !.written = t.written \o data]]

\* self._target.close()
TargetClose(t) == IF t.st = "none" THEN t ELSE [t EXCEPT !.st = "closed"]

(***************************************************************************)
(* The session.                                                            *)
(***************************************************************************)
VARIABLES
    req,            \* self._req: [opcode, mode, options]
    file,           \* what get_target finds: [factory, content, sizeKnown]; factory is
                    \* "ok", "OSError" (os.stat: no such file) or "IOError" (open fails)
    retries,        \* self._retries
    timeout,        \* self._timeout
    blksize,        \* self._blksize
    options,        \* self._options, a set of <<key, value>> pairs
    cur_packet,     \* self._cur_packet
    retransmits,    \* self._retransmits
    should_stop,    \* self._should_stop
    listener,       \* self._listener: "none", "open" or "closed"
    target,         \* self._target
    pc,             \* where run() is: "init", "wait" (blocked in recvfrom) or "done"
    timer,          \* seconds elapsed of the Timeout of the current wait
    outcome,        \* how run() ended
    log,            \* the packets sent and the payloads written, in program order
    ev              \* the event the last step handled

vars == << req, file, retries, timeout, blksize, options, cur_packet, retransmits,
           should_stop, listener, target, pc, timer, outcome, log, ev >>

\* self._peer and an address that is not the peer's
SessionPeer == "peer"
Stranger == "stranger"
Peers == {SessionPeer, Stranger}

\* option values, as the request carries them
Str8 == << 56 >>
Str4 == << 52 >>
Str0 == << 48 >>
Str2 == << 50 >>
Str10 == << 49, 48 >>
Str256 == << 50, 53, 54 >>
Str65465 == << 54, 53, 52, 54, 53 >>
StrX == << 120 >>
StrMinus1 == << 45, 49 >>
StrSpace8 == << 32, 56 >>
\* the byte 0xE9: Server.parse_request decodes the request as latin-1
StrE9 == << 233 >>

\* the option maps of the requests
OptionMaps ==
    { {},
      { <<"blksize", Str8>> },
      { <<"blksize", StrSpace8>>, <<"tsize", Str0>> },
      { <<"tsize", Str10>> },
      { <<"timeout", Str2>> },
      { <<"windowsize", Str4>>, <<"tsize", StrX>> },
      { <<"blksize", Str4>> },
      { <<"blksize", Str65465>> },
      { <<"blksize", StrX>> },
      { <<"timeout", Str0>> },
      { <<"timeout", Str256>> },
      { <<"timeout", StrX>>, <<"blksize", Str8>> },
      { <<"tsize", StrMinus1>> },
      { <<"blksize", StrE9>> } }

\* the bytes of a file of n bytes
Pattern == << 65, LF, 66, CR, 67 >>
Content(n) == [i \in 1..n |-> Pattern[((i - 1) % Len(Pattern)) + 1]]

HasOption(opts, k) == \E o \in opts : o[1] = k
OptionValue(opts, k) == (CHOOSE o \in opts : o[1] = k)[2]

\* one entry of the log: a packet handed to sendto (retx: by _handle_timeout)
\* or a payload handed to the target's write that returned
Sent(packet, retx) == [act |-> "send", pkt |-> packet, to |-> SessionPeer, retx |-> retx]
Wrote(packet) == [act |-> "write", pkt |-> packet, to |-> "target", retx |-> FALSE]

NoEvent == [t |-> "none", raw |-> << >>, from |-> ""]
StartEvent == [t |-> "start", raw |-> << >>, from |-> ""]
TickEvent == [t |-> "tick", raw |-> << >>, from |-> ""]
TimeoutEvent == [t |-> "timeout", raw |-> << >>, from |-> ""]
RecvEvent(raw, from) == [t |-> "recv", raw |-> raw, from |-> from]

Init ==
    /\ req \in [opcode : {OPCODE_RRQ, OPCODE_WRQ},
                mode : {MODE_BINARY, MODE_NETASCII},
                options : OptionMaps]
    /\ file \in [factory : {"ok", "OSError", "IOError"},
                 content : {Content(n) : n \in 0..MaxFileLen},
                 sizeKnown : BOOLEAN]
    /\ (req.opcode = OPCODE_WRQ => file.content = << >> /\ ~file.sizeKnown)
    /\ (file.factory # "ok" => file.content = << >> /\ ~file.sizeKnown)
    \* size() is only called for a tsize option
    /\ (req.opcode = OPCODE_RRQ /\ file.factory = "ok" /\ ~HasOption(req.options, "tsize")
          => file.sizeKnown)
    /\ retries \in {0, MaxRetries}
    /\ timeout = MaxTimeout
    /\ blksize = DEFAULT_BLKSIZE
    /\ options = {}
    /\ cur_packet = NoPacket
    /\ retransmits = 0
    /\ should_stop = FALSE
    /\ listener = "none"
    /\ target = NoTarget
    /\ pc = "init"
    /\ timer = 0
    /\ outcome = "running"
    /\ log = << >>
    /\ ev = NoEvent

(***************************************************************************)
(* The ways run() ends.  Each one runs the finally clause, _close.         *)
(***************************************************************************)
\* message.encode('ascii') of Error.raw fails
NonAscii(message) == \E i \in 1..Len(message) : message[i] > 127

\* except Error as e: self._transmit(e); e.raw() raises UnicodeEncodeError
\* for a message that is not ASCII, and nothing is sent
EndError(e, t, lg) ==
    /\ log' = IF NonAscii(e.data) THEN lg ELSE Append(lg, Sent(e, FALSE))
    /\ outcome' = IF NonAscii(e.data) THEN "UnicodeEncodeError" ELSE "error"
    /\ target' = TargetClose(t)
    /\ listener' = "closed"
    /\ pc' = "done"

\* except PeerError
EndPeerError(t, lg) ==
    /\ log' = lg
    /\ outcome' = "peer_error"
    /\ target' = TargetClose(t)
    /\ listener' = "closed"
    /\ pc' = "done"

\* a finally clause that closes the socket only
EndTimeoutTargetLeftOpen(t, lg) ==
    /\ log' = lg
    /\ outcome' = "timeout"
    /\ target' = t
    /\ listener' = "closed"
    /\ pc' = "done"

\* except TransmitTimeout
EndTimeout(t, lg) ==
    /\ log' = lg
    /\ outcome' = "timeout"
    /\ target' = TargetClose(t)
    /\ listener' = "closed"
    /\ pc' = "done"

\* an exception run() has no except clause for: it leaves run() after _close
EndException(exc, t, lg) ==
    /\ log' = lg
    /\ outcome' = exc
    /\ target' = TargetClose(t)
    /\ listener' = "closed"
    /\ pc' = "done"

\* the end of the try block
EndNormal(t, lg) ==
    /\ log' = lg
    /\ outcome' = "normal"
    /\ target' = TargetClose(t)
    /\ listener' = "closed"
    /\ pc' = "done"

(***************************************************************************)
(* Option application.  The loop over the request's options raises         *)
(* Error(INVALID_OPTIONS) at the first invalid value it meets, in the      *)
(* order of the dictionary: any of the invalid options may be the one.     *)
(* The message of that Error is modelled by its variable part, the value   *)
(* formatted into it (%s of the value as received, %d of the integer); the *)
(* text around it is ASCII.                                                *)
(***************************************************************************)
BadBlksize(opts) ==
    /\ HasOption(opts, "blksize")
    /\ LET v == PyInt(OptionValue(opts, "blksize"))
       IN  ~v.ok \/ v.val < MIN_BLKSIZE \/ v.val > MAX_BLKSIZE

BadTimeout(opts) ==
    /\ HasOption(opts, "timeout")
    /\ LET v == PyInt(OptionValue(opts, "timeout"))
       IN  ~v.ok \/ v.val < MIN_TIMEOUT \/ v.val > MAX_TIMEOUT

BadTsize(opts) ==
    /\ HasOption(opts, "tsize")
    /\ LET v == PyInt(OptionValue(opts, "tsize"))
       IN  ~v.ok \/ v.val < 0

\* option k of the request makes _apply_options raise
BadOption(opts, k) ==
    CASE k = "blksize" -> BadBlksize(opts)
      [] k = "timeout" -> BadTimeout(opts)
      [] k = "tsize" -> BadTsize(opts)

\* the variable part of the message of the Error raised for option k
OptionErrorText(opts, k) ==
    LET v == PyInt(OptionValue(opts, k))
    IN  IF v.ok THEN PyUnicode(v.val) ELSE OptionValue(opts, k)

\* the Errors _apply_options may raise, keys being the options it checks
OptionErrors(opts, keys) ==
    { Error(INVALID_OPTIONS, OptionErrorText(opts, k)) : k \in { x \in keys : BadOption(opts, x) } }

AckBlksize(opts) ==
    IF HasOption(opts, "blksize")
    THEN { <<"blksize", PyUnicode(PyInt(OptionValue(opts, "blksize")).val)>> }
    ELSE {}

AckTimeout(opts) ==
    IF HasOption(opts, "timeout")
    THEN { <<"timeout", PyUnicode(PyInt(OptionValue(opts, "timeout")).val)>> }
    ELSE {}

\* a session that acknowledges tsize whether or not the target has a size
ReadAckTsizeAlways(opts, t) ==
    IF HasOption(opts, "tsize")
    THEN { <<"tsize", PyUnicode(TargetSize(t)[1])>> }
    ELSE {}

\* the tsize branch of the read session: the target's size, when it has one
ReadAckTsize(opts, t) ==
    IF HasOption(opts, "tsize") /\ TargetSize(t)[1] # None
    THEN { <<"tsize", PyUnicode(TargetSize(t)[1])>> }
    ELSE {}

\* the tsize branch of the write session: the client's value
WriteAckTsize(opts) ==
    IF HasOption(opts, "tsize")
    THEN { <<"tsize", PyUnicode(PyInt(OptionValue(opts, "tsize")).val)>> }
    ELSE {}

\* BaseReadHandler._apply_options
ReadApplyOptions(opts, t, bs, tmo) ==
    IF BadBlksize(opts) \/ BadTimeout(opts)
    THEN [err |-> TRUE, opts |-> {}, blksize |-> bs, timeout |-> tmo, target |-> t]
    ELSE [err |-> FALSE,
          opts |-> AckBlksize(opts) \cup ReadAckTsize(opts, t) \cup AckTimeout(opts),
          blksize |-> IF HasOption(opts, "blksize")
                      THEN PyInt(OptionValue(opts, "blksize")).val ELSE bs,
          timeout |-> IF HasOption(opts, "timeout")
                      THEN PyInt(OptionValue(opts, "timeout")).val ELSE tmo,
          target |-> IF HasOption(opts, "tsize") THEN TargetSize(t)[2] ELSE t]

\* BaseWriteHandler._apply_options
WriteApplyOptions(opts, bs, tmo) ==
    IF BadBlksize(opts) \/ BadTimeout(opts) \/ BadTsize(opts)
    THEN [err |-> TRUE, opts |-> {}, blksize |-> bs, timeout |-> tmo]
    ELSE [err |-> FALSE,
          opts |-> AckBlksize(opts) \cup WriteAckTsize(opts) \cup AckTimeout(opts),
          blksize |-> IF HasOption(opts, "blksize")
                      THEN PyInt(OptionValue(opts, "blksize")).val ELSE bs,
          timeout |-> IF HasOption(opts, "timeout")
                      THEN PyInt(OptionValue(opts, "timeout")).val ELSE tmo]

(***************************************************************************)
(* The read session (BaseReadHandler).                                     *)
(***************************************************************************)
\* a session that takes the ACK of the block before the outstanding one
ReadExpectedBlockNumBehind(cur) ==
    IF cur.op = NoPacket.op \/ cur.op = OPCODE_OACK THEN 0 ELSE cur.block - 1

\* a session whose block numbers wrap to 0
NextBlockNumWrapsToZero(cur) ==
    IF cur.op = NoPacket.op \/ cur.op = OPCODE_OACK THEN 1
    ELSE IF cur.block + 1 > MAX_BLOCK_NUMBER THEN 0 ELSE cur.block + 1

\* BaseReadHandler._expected_block_num
ReadExpectedBlockNum(cur) ==
    IF cur.op = NoPacket.op \/ cur.op = OPCODE_OACK THEN 0 ELSE cur.block

\* the while loop of _next_block: <<block, target'>>
RECURSIVE NextBlockLoop(_, _, _, _)
NextBlockLoop(t, block, data, bs) ==
    IF Len(block) < bs /\ Len(data) > 0
    THEN LET r == TargetRead(t, bs - Len(block))
         IN  NextBlockLoop(r[2], block \o r[1], r[1], bs)
    ELSE << block, t >>

\* the block number _next_block gives the next DATA
NextBlockNum(cur) ==
    IF cur.op = NoPacket.op \/ cur.op = OPCODE_OACK THEN 1
    ELSE IF cur.block + 1 > MAX_BLOCK_NUMBER THEN 1 ELSE cur.block + 1

\* BaseReadHandler._next_block: <<Data, target'>>
NextBlock(cur, t, bs) ==
    LET r == TargetRead(t, bs)
        l == NextBlockLoop(r[2], r[1], r[1], bs)
    IN  << Data(NextBlockNum(cur), l[1]), l[2] >>

\* a session that takes a full block for the last one
ReadSendNextStopsOnFull(cur, t, bs, lg) ==
    LET nb == NextBlock(cur, t, bs)
    IN  /\ cur_packet' = nb[1]
        /\ target' = nb[2]
        /\ log' = Append(lg, Sent(nb[1], FALSE))
        /\ should_stop' = (Blocksize(nb[1]) <= bs)
        /\ pc' = "wait"
        /\ timer' = 0

\* send a new DATA block and wait for its ACK (_handle_rrq and run_once)
ReadSendNext(cur, t, bs, lg) ==
    LET nb == NextBlock(cur, t, bs)
    IN  /\ cur_packet' = nb[1]
        /\ target' = nb[2]
        /\ log' = Append(lg, Sent(nb[1], FALSE))
        /\ should_stop' = (Blocksize(nb[1]) < bs)
        /\ pc' = "wait"
        /\ timer' = 0

\* run() up to the first recvfrom: _before_run and _handle_rrq
RdStart ==
    /\ pc = "init"
    /\ req.opcode = OPCODE_RRQ
    /\ ev' = StartEvent
    /\ UNCHANGED << req, file, retries, retransmits >>
    /\ IF file.factory # "ok"
       THEN /\ EndException(file.factory, NoTarget, log)
            /\ UNCHANGED << blksize, timeout, options, cur_packet, should_stop, timer >>
       ELSE LET t0 == ReadTarget(file.content, file.sizeKnown, req.mode = MODE_NETASCII)
                a == ReadApplyOptions(req.options, t0, blksize, timeout)
            IN  IF a.err
                THEN /\ \E e \in OptionErrors(req.options, {"blksize", "timeout"}) :
                            EndError(e, a.target, log)
                     /\ UNCHANGED << blksize, timeout, options, cur_packet, should_stop, timer >>
                ELSE /\ blksize' = a.blksize
                     /\ timeout' = a.timeout
                     /\ options' = a.opts
                     /\ listener' = "open"
                     /\ outcome' = outcome
                     /\ IF a.opts # {}
                        THEN /\ cur_packet' = OACK(a.opts)
                             /\ log' = Append(log, Sent(OACK(a.opts), FALSE))
                             /\ target' = a.target
                             /\ should_stop' = FALSE
                             /\ pc' = "wait"
                             /\ timer' = 0
                        ELSE ReadSendNext(cur_packet, a.target, a.blksize, log)

\* a session that drops the datagrams of other senders
RdWrongPeerIgnored ==
    UNCHANGED << cur_packet, retransmits, should_stop, timer, target, listener,
                 pc, outcome, log >>

\* __wait_one_ack: a datagram from another address than the peer's
RdWrongPeer ==
    /\ EndError(Error(UNDEFINED, << >>), target, log)
    /\ UNCHANGED << cur_packet, retransmits, should_stop, timer >>

\* __wait_one_ack: Error.parse fails with an exception of its own
RdParseException(exc) ==
    /\ EndException(exc, target, log)
    /\ UNCHANGED << cur_packet, retransmits, should_stop, timer >>

\* __wait_one_ack: `raise err` of the Error the peer sent; err is an instance
\* of Error, so the except Error clause of run() handles it
RdPeerError(err) ==
    /\ EndError(err, target, log)
    /\ UNCHANGED << cur_packet, retransmits, should_stop, timer >>

\* __wait_one_ack: neither an ERROR nor an ACK
RdIllegal ==
    /\ EndError(Error(ILLEGAL_OPERATION, << >>), target, log)
    /\ UNCHANGED << cur_packet, retransmits, should_stop, timer >>

\* a session that starts a new Timeout after each discarded ACK
RdDiscardRestartsTimer ==
    /\ timer' = 0
    /\ UNCHANGED << cur_packet, retransmits, should_stop, target, listener,
                    pc, outcome, log >>

\* a session that takes any ACK for a sign of life and starts counting anew
RdDiscardResetsCount ==
    /\ retransmits' = 0
    /\ UNCHANGED << cur_packet, should_stop, timer, target, listener,
                    pc, outcome, log >>

\* _wait_ack: an ACK that is not the expected one; the loop goes on
RdDiscard ==
    UNCHANGED << cur_packet, retransmits, should_stop, timer, target, listener,
                 pc, outcome, log >>

\* run_once: the expected ACK arrived
RdAccept ==
    /\ retransmits' = 0
    /\ ReadSendNext(cur_packet, target, blksize, log)
    /\ UNCHANGED << listener, outcome >>

\* run(): the ACK of the last block arrived
RdLastAck ==
    /\ EndNormal(target, log)
    /\ UNCHANGED << cur_packet, retransmits, should_stop, timer >>

\* the expected ACK: run_once while the transfer goes on, the last wait after it
RdAcked ==
    IF should_stop THEN RdLastAck ELSE RdAccept

\* one datagram taken from the socket by __wait_one_ack
RdRecv(raw, from) ==
    /\ pc = "wait"
    /\ req.opcode = OPCODE_RRQ
    /\ ev' = RecvEvent(raw, from)
    /\ UNCHANGED << req, file, retries, timeout, blksize, options >>
    /\ LET data == Take(raw, DEFAULT_BLKSIZE)
           err == ErrorParse(data)
           ack == AckParse(data)
       IN  IF from # SessionPeer THEN RdWrongPeer
           ELSE IF err.tag = "exc" THEN RdParseException(err.exc)
           ELSE IF err.tag = "pkt" THEN RdPeerError(err.pkt)
           ELSE IF ack.tag = "none" THEN RdIllegal
           ELSE IF ack.pkt.block # ReadExpectedBlockNum(cur_packet) THEN RdDiscard
           ELSE RdAcked

\* a session that builds the packet to retransmit from the target again
ReadHandleTimeoutReadsAgain ==
    IF retransmits < retries
    THEN LET r == TargetRead(target, blksize)
         IN  /\ log' = Append(log, Sent(IF cur_packet.op = OPCODE_DATA
                                         THEN Data(cur_packet.block, r[1])
                                         ELSE cur_packet, TRUE))
             /\ target' = r[2]
             /\ retransmits' = retransmits + 1
             /\ timer' = 0
             /\ UNCHANGED << listener, pc, outcome >>
    ELSE /\ EndTimeout(target, log)
         /\ UNCHANGED << retransmits, timer >>

\* a session that retransmits once more than `retries` times
ReadHandleTimeoutOnceMore ==
    IF retransmits <= retries
    THEN /\ log' = Append(log, Sent(cur_packet, TRUE))
         /\ retransmits' = retransmits + 1
         /\ timer' = 0
         /\ UNCHANGED << target, listener, pc, outcome >>
    ELSE /\ EndTimeout(target, log)
         /\ UNCHANGED << retransmits, timer >>

\* _handle_timeout
ReadHandleTimeout ==
    IF retransmits < retries
    THEN /\ log' = Append(log, Sent(cur_packet, TRUE))
         /\ retransmits' = retransmits + 1
         /\ timer' = 0
         /\ UNCHANGED << target, listener, pc, outcome >>
    ELSE /\ EndTimeout(target, log)
         /\ UNCHANGED << retransmits, timer >>

\* the Timeout of _wait_ack fires
RdTimeout ==
    /\ pc = "wait"
    /\ req.opcode = OPCODE_RRQ
    /\ timer = timeout
    /\ ev' = TimeoutEvent
    /\ ReadHandleTimeout
    /\ UNCHANGED << req, file, retries, timeout, blksize, options, cur_packet, should_stop >>

(***************************************************************************)
(* The write session (BaseWriteHandler).                                   *)
(***************************************************************************)
\* a session that waits again for the block it has acknowledged
WriteExpectedBlockNumAgain(cur) ==
    IF cur.op = NoPacket.op THEN None
    ELSE IF cur.op = OPCODE_OACK THEN 1
    ELSE IF cur.block = 0 THEN 1 ELSE cur.block

\* BaseWriteHandler._expected_block_num (cur is an OACK or an ACK)
WriteExpectedBlockNum(cur) ==
    IF cur.op = NoPacket.op THEN None
    ELSE IF cur.op = OPCODE_OACK THEN 1
    ELSE cur.block + 1

\* run() up to the first recvfrom: _before_run and _handle_wrq
WrStart ==
    /\ pc = "init"
    /\ req.opcode = OPCODE_WRQ
    /\ ev' = StartEvent
    /\ UNCHANGED << req, file, retries, retransmits, should_stop >>
    /\ IF file.factory # "ok"
       THEN /\ EndException(file.factory, NoTarget, log)
            /\ UNCHANGED << blksize, timeout, options, cur_packet, timer >>
       ELSE LET t0 == WriteTarget(req.mode = MODE_NETASCII)
                a == WriteApplyOptions(req.options, blksize, timeout)
            IN  IF a.err
                THEN /\ \E e \in OptionErrors(req.options, {"blksize", "timeout", "tsize"}) :
                            EndError(e, t0, log)
                     /\ UNCHANGED << blksize, timeout, options, cur_packet, timer >>
                ELSE /\ blksize' = a.blksize
                     /\ timeout' = a.timeout
                     /\ options' = a.opts
                     /\ listener' = "open"
                     /\ outcome' = outcome
                     /\ target' = t0
                     /\ cur_packet' = (IF a.opts # {} THEN OACK(a.opts) ELSE ACK(0))
                     /\ log' = Append(log, Sent(cur_packet', FALSE))
                     /\ pc' = "wait"
                     /\ timer' = 0

\* _wait_one_block: a datagram from another address than the peer's
WrWrongPeer ==
    /\ EndError(Error(UNDEFINED, << >>), target, log)
    /\ UNCHANGED << cur_packet, retransmits, should_stop, timer >>

\* _wait_one_block: Error.parse or Data.parse fails with an exception of its own
WrParseException(exc) ==
    /\ EndException(exc, target, log)
    /\ UNCHANGED << cur_packet, retransmits, should_stop, timer >>

\* _wait_one_block: `raise err` of the Error the peer sent; err is an instance
\* of Error, so the except Error clause of run() handles it
WrPeerError(err) ==
    /\ EndError(err, target, log)
    /\ UNCHANGED << cur_packet, retransmits, should_stop, timer >>

\* _wait_one_block: neither an ERROR nor a DATA
WrIllegal ==
    /\ EndError(Error(ILLEGAL_OPERATION, << >>), target, log)
    /\ UNCHANGED << cur_packet, retransmits, should_stop, timer >>

\* _wait_data: a DATA that is not the expected one; the loop goes on
WrDiscard ==
    UNCHANGED << cur_packet, retransmits, should_stop, timer, target, listener,
                 pc, outcome, log >>

\* run_once: the expected DATA arrived
WrAccept(data) ==
    LET w == TargetWrite(target, data.data)
        lg == log \o << Wrote(data), Sent(ACK(data.block), FALSE) >>
    IN  /\ retransmits' = 0
        /\ IF ~w.ok
           THEN /\ EndException("IndexError", target, log)
                /\ UNCHANGED << cur_packet, should_stop, timer >>
           ELSE /\ cur_packet' = ACK(data.block)
                /\ should_stop' = (Blocksize(data) < blksize)
                /\ timer' = 0
                /\ IF Blocksize(data) < blksize
                   THEN EndNormal(w.target, lg)
                   ELSE /\ target' = w.target
                        /\ log' = lg
                        /\ UNCHANGED << listener, pc, outcome >>

\* one datagram taken from the socket by _wait_one_block
WrRecv(raw, from) ==
    /\ pc = "wait"
    /\ req.opcode = OPCODE_WRQ
    /\ ev' = RecvEvent(raw, from)
    /\ UNCHANGED << req, file, retries, timeout, blksize, options >>
    /\ LET block == Take(raw, blksize + 4)
           err == ErrorParse(block)
           data == DataParse(block)
       IN  IF from # SessionPeer THEN WrWrongPeer
           ELSE IF err.tag = "exc" THEN WrParseException(err.exc)
           ELSE IF err.tag = "pkt" THEN WrPeerError(err.pkt)
           ELSE IF data.tag = "exc" THEN WrParseException(data.exc)
           ELSE IF data.tag = "none" THEN WrIllegal
           ELSE IF data.pkt.block # WriteExpectedBlockNum(cur_packet) THEN WrDiscard
           ELSE WrAccept(data.pkt)

\* run_once after _wait_data timed out: self._handle_timeout(), a method
\* BaseWriteHandler does not have
WriteHandleTimeout ==
    /\ EndException("AttributeError", target, log)
    /\ UNCHANGED << retransmits, timer >>

\* the Timeout of _wait_data fires
WrTimeout ==
    /\ pc = "wait"
    /\ req.opcode = OPCODE_WRQ
    /\ timer = timeout
    /\ ev' = TimeoutEvent
    /\ WriteHandleTimeout
    /\ UNCHANGED << req, file, retries, timeout, blksize, options, cur_packet, should_stop >>

(***************************************************************************)
(* Time and the network.                                                   *)
(***************************************************************************)
\* one second passes while the session is blocked in recvfrom
Tick ==
    /\ pc = "wait"
    /\ timer < timeout
    /\ timer' = timer + 1
    /\ ev' = TickEvent
    /\ UNCHANGED << req, file, retries, timeout, blksize, options, cur_packet,
                    retransmits, should_stop, listener, target, pc, outcome, log >>

\* the block numbers the peer's ACKs carry: 0 and those of the blocks that
\* the longest stream takes
PeerBlocks == 0..((Len(NetasciiEncodeChars(Content(MaxFileLen))) \div MIN_BLKSIZE) + 1)

\* the payloads the peer's DATA packets carry
PeerPayloads ==
    { << >>, << 65 >>, << 65, CR, LF >>, << 65, CR, LF, 66, CR, NUL, 67 >>,
      Content(MIN_BLKSIZE), Content(MIN_BLKSIZE + 1) }

\* datagrams that are not a well-formed ACK, DATA or ERROR
Malformed ==
    { << >>, << 0, 5 >>, << 0, 5, 0, 1 >>,
      << 0, 5, 0, 9, 0 >>, << 0, 5, 0, 1, 200, 0 >>,
      << 0, 4, 0, 1, 0 >>, << 0, 3 >>, << 0, 3, 0, 0 >>,
      << 0, 1, 102, 0, 111, 99, 116, 101, 116, 0 >>,
      << 0, 6, 116, 115, 105, 122, 101, 0, 48, 0 >>,
      << 0, 9 >> }

\* the ERROR packets of the peer
PeerErrors == { ErrorRaw(0, << 120 >>), ErrorRaw(3, << >>) }

\* what the peer may send to a read session
ReadDatagrams ==
    { AckRaw(n) : n \in PeerBlocks }
    \cup { DataRaw(1, << 65 >>) } \cup PeerErrors \cup Malformed

\* what the peer may send to a write session
WriteDatagrams ==
    { DataRaw(n, d) : n \in 1..3, d \in PeerPayloads }
    \cup { AckRaw(1) } \cup PeerErrors \cup Malformed

\* what another host may send to the session socket
StrayDatagrams ==
    { AckRaw(1), DataRaw(1, << 65 >>), ErrorRaw(0, << 120 >>), << >> }

\* the datagrams that may arrive from an address
Arrivals(set, from) == IF from = SessionPeer THEN set ELSE StrayDatagrams

Next ==
    \/ RdStart
    \/ \E from \in Peers : \E raw \in Arrivals(ReadDatagrams, from) : RdRecv(raw, from)
    \/ RdTimeout
    \/ WrStart
    \/ \E from \in Peers : \E raw \in Arrivals(WriteDatagrams, from) : WrRecv(raw, from)
    \/ WrTimeout
    \/ Tick

Spec == Init /\ [][Next]_vars

(***************************************************************************)
(* A read session far into a long transfer: it has sent the full DATA      *)
(* block MAX_BLOCK_NUMBER - 1 or MAX_BLOCK_NUMBER and waits for its ACK.   *)
(* `file.content` and the target hold the part of the file that is not     *)
(* read yet (the file is read sequentially, so the bytes before it play no *)
(* part in what follows) and the log starts with the outstanding packet.   *)
(***************************************************************************)
InitWrap ==
    /\ req \in [opcode : {OPCODE_RRQ},
                mode : {MODE_BINARY, MODE_NETASCII},
                options : {{ <<"blksize", Str8>> }}]
    /\ file \in [factory : {"ok"},
                 content : {Content(n) : n \in 0..MaxFileLen},
                 sizeKnown : {TRUE}]
    /\ retries \in {0, MaxRetries}
    /\ timeout = MaxTimeout
    /\ blksize = MIN_BLKSIZE
    /\ options = AckBlksize(req.options)
    /\ cur_packet \in {Data(n, Content(MIN_BLKSIZE)) :
                          n \in {MAX_BLOCK_NUMBER - 1, MAX_BLOCK_NUMBER}}
    /\ retransmits = 0
    /\ should_stop = FALSE
    /\ listener = "open"
    /\ target = ReadTarget(file.content, file.sizeKnown, req.mode = MODE_NETASCII)
    /\ pc = "wait"
    /\ timer = 0
    /\ outcome = "running"
    /\ log = << Sent(cur_packet, FALSE) >>
    /\ ev = NoEvent

\* the ACKs and other datagrams the peer may send around the wrap
WrapDatagrams ==
    { AckRaw(n) : n \in {0, 1, 2, MAX_BLOCK_NUMBER - 1, MAX_BLOCK_NUMBER} }
    \cup { << 0, 4, 0, 1, 0 >> }

NextWrap ==
    \/ \E raw \in WrapDatagrams : RdRecv(raw, SessionPeer)
    \/ RdTimeout
    \/ Tick

SpecWrap == InitWrap /\ [][NextWrap]_vars

(***************************************************************************)
(* A write session far into a long transfer: it has acknowledged block     *)
(* 65534 and waits for the next DATA.  `target.written` holds the bytes    *)
(* written from here on.                                                   *)
(***************************************************************************)
InitWrapWrite ==
    /\ req \in [opcode : {OPCODE_WRQ},
                mode : {MODE_BINARY, MODE_NETASCII},
                options : {{ <<"blksize", Str8>> }}]
    /\ file = [factory |-> "ok", content |-> << >>, sizeKnown |-> FALSE]
    /\ retries \in {0, MaxRetries}
    /\ timeout = MaxTimeout
    /\ blksize = MIN_BLKSIZE
    /\ options = AckBlksize(req.options)
    /\ cur_packet = ACK(MAX_BLOCK_NUMBER - 1)
    /\ retransmits = 0
    /\ should_stop = FALSE
    /\ listener = "open"
    /\ target = WriteTarget(req.mode = MODE_NETASCII)
    /\ pc = "wait"
    /\ timer = 0
    /\ outcome = "running"
    /\ log = << Sent(cur_packet, FALSE) >>
    /\ ev = NoEvent

\* the DATA packets the peer may send around the wrap: full blocks, the last
\* one ending in a CR LF pair, and short ones
WrapPayloads ==
    { Content(MIN_BLKSIZE), << 65, 65, 65, 65, 65, 65, CR, LF >>, << 65, CR, LF >>, << >> }

WrapWriteDatagrams ==
    { DataRaw(n, d) : n \in {0, 1, 2, MAX_BLOCK_NUMBER - 1, MAX_BLOCK_NUMBER},
                      d \in WrapPayloads }

NextWrapWrite ==
    \/ \E raw \in WrapWriteDatagrams : WrRecv(raw, SessionPeer)
    \/ WrTimeout
    \/ Tick

SpecWrapWrite == InitWrapWrite /\ [][NextWrapWrite]_vars

(***************************************************************************)
(* A netascii write session whose peer sends one buffer as its first DATA:  *)
(* every buffer of at most MaxBufLen bytes over a letter, CR, LF and NUL,   *)
(* and the buffer "A\r\nB\r\0C".  The session hands the buffer to           *)
(* NetasciiWriter.write.                                                   *)
(***************************************************************************)
WriterBytes == {65, CR, LF, NUL}

Buffers ==
    UNION { [1..n -> WriterBytes] : n \in 0..MaxBufLen }
        \cup { << 65, CR, LF, 66, CR, NUL, 67 >> }

InitWriter ==
    /\ Init
    /\ req = [opcode |-> OPCODE_WRQ, mode |-> MODE_NETASCII, options |-> {}]
    /\ file.factory = "ok"

NextWriter ==
    \/ WrStart
    \/ \E d \in Buffers : WrRecv(DataRaw(1, d), SessionPeer)
    \/ WrTimeout
    \/ Tick

SpecWriter == InitWriter /\ [][NextWriter]_vars

(***************************************************************************)
(* A NetasciiReader over a reader that holds `file.content`, every content *)
(* of at most MaxBufLen bytes over a letter, LF and CR.  Its user calls    *)
(* size() before the first read, as _apply_options does for a tsize        *)
(* option, at most twice, and then read(blksize) with a fixed size until a *)
(* read returns nothing.  `log` holds the calls and their results, `ev`    *)
(* the last of them.                                                       *)
(***************************************************************************)
ReaderBytes == {65, LF, CR}

Contents == UNION { [1..n -> ReaderBytes] : n \in 0..MaxBufLen }

ReadCall(bytes) == [t |-> "read", raw |-> bytes, from |-> "target"]
SizeCall(n) == [t |-> "size", raw |-> << n >>, from |-> "target"]

InitReader ==
    /\ req = [opcode |-> OPCODE_RRQ, mode |-> MODE_NETASCII, options |-> {}]
    /\ file \in [factory : {"ok"}, content : Contents, sizeKnown : {TRUE}]
    /\ retries = 0
    /\ timeout = MaxTimeout
    /\ blksize \in 1..MaxReadSize
    /\ options = {}
    /\ cur_packet = NoPacket
    /\ retransmits = 0
    /\ should_stop = FALSE
    /\ listener = "none"
    /\ target = ReadTarget(file.content, TRUE, TRUE)
    /\ pc = "init"
    /\ timer = 0
    /\ outcome = "running"
    /\ log = << >>
    /\ ev = NoEvent

\* self._target.read(size)
ReaderRead ==
    /\ \A i \in 1..Len(log) : log[i] # ReadCall(<< >>)
    /\ LET r == NetasciiRead(target, blksize)
       IN  /\ target' = r[2]
           /\ ev' = ReadCall(r[1])
           /\ log' = Append(log, ReadCall(r[1]))
    /\ UNCHANGED << req, file, retries, timeout, blksize, options, cur_packet,
                    retransmits, should_stop, listener, pc, timer, outcome >>

\* self._target.size()
ReaderSize ==
    /\ Len(log) < 2
    /\ \A i \in 1..Len(log) : log[i].t = "size"
    /\ LET r == NetasciiSize(target)
       IN  /\ target' = r[2]
           /\ ev' = SizeCall(r[1])
           /\ log' = Append(log, SizeCall(r[1]))
    /\ UNCHANGED << req, file, retries, timeout, blksize, options, cur_packet,
                    retransmits, should_stop, listener, pc, timer, outcome >>

NextReader == ReaderRead \/ ReaderSize

SpecReader == InitReader /\ [][NextReader]_vars

(***************************************************************************)
(* A NetasciiWriter that is given a NetASCII stream in two buffers: every  *)
(* split a, b of the encoding of a content.  `log` holds the write calls,  *)
(* `outcome` the exception of a call that failed.                          *)
(***************************************************************************)
Streams == { NetasciiEncodeChars(c) : c \in Contents }

WriteCall(bytes) == [t |-> "write", raw |-> bytes, from |-> "target"]

InitSplit ==
    /\ req = [opcode |-> OPCODE_WRQ, mode |-> MODE_NETASCII, options |-> {}]
    /\ file = [factory |-> "ok", content |-> << >>, sizeKnown |-> FALSE]
    /\ retries = 0
    /\ timeout = MaxTimeout
    /\ blksize = DEFAULT_BLKSIZE
    /\ options = {}
    /\ cur_packet = NoPacket
    /\ retransmits = 0
    /\ should_stop = FALSE
    /\ listener = "none"
    /\ target = WriteTarget(TRUE)
    /\ pc = "init"
    /\ timer = 0
    /\ outcome = "running"
    /\ log = << >>
    /\ ev = NoEvent

\* self._target.write(bytes)
WriterWrite(bytes) ==
    /\ outcome = "running"
    /\ LET w == TargetWrite(target, bytes)
       IN  /\ target' = w.target
           /\ outcome' = IF w.ok THEN outcome ELSE "IndexError"
    /\ ev' = WriteCall(bytes)
    /\ log' = Append(log, WriteCall(bytes))
    /\ UNCHANGED << req, file, retries, timeout, blksize, options, cur_packet,
                    retransmits, should_stop, listener, pc, timer >>

NextSplit ==
    \E str \in Streams : \E k \in 0..Len(str) :
        \/ /\ log = << >>
           /\ WriterWrite(Take(str, k))
        \/ /\ Len(log) = 1
           /\ log[1].raw = Take(str, k)
           /\ WriterWrite(Drop(str, k))

SpecSplit == InitSplit /\ [][NextSplit]_vars

(***************************************************************************)
(* The packet codec by itself.  `cur_packet` is a packet of one of the six *)
(* types; it is encoded and the bytes are parsed by the parser of its      *)
(* class, or a parser is given a malformed byte string.  `ev` holds the    *)
(* call (the bytes and the class whose parse method is called), `log` its  *)
(* result.                                                                 *)
(***************************************************************************)
\* option names and values
KeyBlksize == << 98, 108, 107, 115, 105, 122, 101 >>
KeyBLKSIZE == << 66, 76, 75, 83, 73, 90, 69 >>
KeyTsize == << 116, 115, 105, 122, 101 >>
Str1024 == << 49, 48, 50, 52 >>
AsciiMail == << 109, 97, 105, 108 >>
PathF == << 102 >>

\* option dictionaries: one option, several options, an upper-case name
OptionLists ==
    { << << KeyBlksize, Str1024 >> >>,
      << << KeyTsize, Str0 >>, << KeyBlksize, Str8 >> >>,
      << << KeyBLKSIZE, Str1024 >> >> }

ValidPackets ==
    { Request(o, PathF, m, opts) : o \in {OPCODE_RRQ, OPCODE_WRQ},
                                   m \in {AsciiOctet, AsciiNetascii},
                                   opts \in OptionLists \cup { << >> } }
      \cup { Data(n, d) : n \in {1, MAX_BLOCK_NUMBER},
                          d \in { << >>, << 65 >>, << NUL >>, << 65, NUL >> } }
      \cup { ACK(n) : n \in {0, 1, MAX_BLOCK_NUMBER} }
      \cup { Error(c, m) : c \in ERR_CODES, m \in { << >>, << 120 >> } }
      \cup { OACK(opts) : opts \in OptionLists }

\* the classes whose parse method reads a packet of p's type
ClassesOf(p) ==
    CASE p.op = OPCODE_RRQ -> {"Request", "RRQ"}
      [] p.op = OPCODE_WRQ -> {"Request", "WRQ"}
      [] p.op = OPCODE_DATA -> {"Data"}
      [] p.op = OPCODE_ACK -> {"ACK"}
      [] p.op = OPCODE_ERROR -> {"Error"}
      [] p.op = OPCODE_OACK -> {"OACK"}

Classes == {"Request", "RRQ", "WRQ", "Data", "ACK", "Error", "OACK"}

\* byte strings that are no packet of any type: an opcode outside 1..6, too
\* short to hold an opcode
NoPacketBytes == { << 0, 9 >>, << 0, 0, 0, 1 >>, << 0, 7, 102, 0 >>, << >>, << 0 >> }

\* <<class, bytes>>: byte strings that are no packet of the class
MalformedInputs ==
    (Classes \X NoPacketBytes)
      \cup ({"Data", "ACK", "Error"} \X { << 0, 3 >>, << 0, 4, 0 >>, << 0, 5 >> })
      \cup ({"Request", "RRQ", "WRQ"} \X
              { PackU16(OPCODE_RRQ) \o PathF \o AsciiOctet,
                PackU16(OPCODE_RRQ) \o PathF \o << NUL >> \o AsciiOctet \o << NUL >>
                    \o KeyBlksize \o << NUL >>,
                PackU16(OPCODE_RRQ) \o PathF \o << NUL >> \o AsciiMail \o << NUL >> })
      \cup ({"Error"} \X { << 0, 5, 0, 9, 0 >>, << 0, 5, 0, 1 >> })
      \cup ({"OACK"} \X { << 0, 6 >>, PackU16(OPCODE_OACK) \o KeyBlksize \o << NUL >> })

ParseCall(class, raw) == [t |-> "parse", raw |-> raw, from |-> class]

InitCodec ==
    /\ req = [opcode |-> OPCODE_RRQ, mode |-> MODE_BINARY, options |-> {}]
    /\ file = [factory |-> "ok", content |-> << >>, sizeKnown |-> TRUE]
    /\ retries = 0
    /\ timeout = MaxTimeout
    /\ blksize = DEFAULT_BLKSIZE
    /\ options = {}
    /\ cur_packet \in ValidPackets
    /\ retransmits = 0
    /\ should_stop = FALSE
    /\ listener = "none"
    /\ target = NoTarget
    /\ pc = "init"
    /\ timer = 0
    /\ outcome = "running"
    /\ log = << >>
    /\ ev = NoEvent

\* class.parse(cur_packet.raw())
CodecRoundTrip ==
    /\ ev = NoEvent
    /\ \E class \in ClassesOf(cur_packet) :
          /\ ev' = ParseCall(class, Raw(cur_packet))
          /\ log' = << Parse(class, Raw(cur_packet)) >>
    /\ UNCHANGED << req, file, retries, timeout, blksize, options, cur_packet,
                    retransmits, should_stop, listener, target, pc, timer, outcome >>

\* class.parse(raw) of a malformed byte string
CodecParse ==
    /\ ev = NoEvent
    /\ \E m \in MalformedInputs :
          /\ ev' = ParseCall(m[1], m[2])
          /\ log' = << Parse(m[1], m[2]) >>
    /\ UNCHANGED << req, file, retries, timeout, blksize, options, cur_packet,
                    retransmits, should_stop, listener, target, pc, timer, outcome >>

NextCodec == CodecRoundTrip \/ CodecParse

SpecCodec == InitCodec /\ [][NextCodec]_vars

(***************************************************************************)
(* The dispatcher (server.py).  Each datagram read on the well-known port  *)
(* is handed to handle_request in a greenlet of its own.  `ev` is the last *)
(* datagram, `log` holds one entry per datagram: whether get_hanlder was   *)
(* called and what came of it ("not asked", "obtained" or the exception it *)
(* raised), whether run() of the handler was called, what was sent in      *)
(* reply and the exception that ended the greenlet, if any.  The variables *)
(* of the session stay as they are while no session runs.                  *)
(***************************************************************************)
\* a parse_request that takes every opcode for a request
ParseRequestAnyOpcode(data) ==
    IF Len(Take(data, 2)) # 2
    THEN [tag |-> "exc", code |-> 0, path |-> << >>, mode |-> << >>, options |-> << >>]
    ELSE LET tokens == Tokens(Drop(data, 2), << >>) IN
         IF Len(tokens) < 2 \/ Len(tokens) % 2 # 0
         THEN [tag |-> "none", code |-> 0, path |-> << >>, mode |-> << >>, options |-> << >>]
         ELSE [tag |-> "info", code |-> U16(Take(data, 2)), path |-> tokens[1],
               mode |-> Lower(tokens[2]),
               options |-> OptionsLoop(tokens, 2, << >>).items]

\* Server.parse_request(data): [tag, code, path, mode, options]
ParseRequest(data) ==
    IF Len(Take(data, 2)) # 2
    THEN [tag |-> "exc", code |-> 0, path |-> << >>, mode |-> << >>, options |-> << >>]
    ELSE IF U16(Take(data, 2)) \notin {OPCODE_RRQ, OPCODE_WRQ}
    THEN [tag |-> "none", code |-> 0, path |-> << >>, mode |-> << >>, options |-> << >>]
    ELSE LET tokens == Tokens(Drop(data, 2), << >>) IN
         IF Len(tokens) < 2 \/ Len(tokens) % 2 # 0
         THEN [tag |-> "none", code |-> 0, path |-> << >>, mode |-> << >>, options |-> << >>]
         ELSE [tag |-> "info", code |-> U16(Take(data, 2)), path |-> tokens[1],
               mode |-> Lower(tokens[2]),
               options |-> OptionsLoop(tokens, 2, << >>).items]

\* self.get_hanlder(server_addr, peer, code, path, mode, retries, timeout,
\* options), called with eight arguments: Server.get_hanlder calls
\* NotImplemented, which is not callable, and the override of StaticServer
\* takes five arguments.  Both raise TypeError; no handler is returned.
GetHanlder(info) == [ok |-> FALSE, exc |-> "TypeError"]

\* what handle_request did with one datagram
Handled(raw, from, handler, session, sent, exc) ==
    [raw |-> raw, from |-> from, handler |-> handler, session |-> session,
     sent |-> sent, exc |-> exc]

\* Server.handle_request(data, peer)
HandleRequest(data, peer) ==
    /\ pc = "init"
    /\ Len(log) < MaxDatagrams
    /\ ev' = [t |-> "request", raw |-> data, from |-> peer]
    /\ LET req_info == ParseRequest(data) IN
       IF req_info.tag = "exc"
       THEN log' = Append(log, Handled(data, peer, "not asked", FALSE, << >>, "struct.error"))
       ELSE IF req_info.tag = "none"
       THEN log' = Append(log, Handled(data, peer, "not asked", FALSE, << >>, ""))
       ELSE LET h == GetHanlder(req_info) IN
            IF ~h.ok
            THEN log' = Append(log, Handled(data, peer, h.exc, FALSE, << >>, h.exc))
            ELSE log' = Append(log, Handled(data, peer, "obtained", TRUE, << >>, ""))
    /\ UNCHANGED << req, file, retries, timeout, blksize, options, cur_packet,
                    retransmits, should_stop, listener, target, pc, timer, outcome >>

\* the datagrams that arrive on the well-known port
RequestDatagrams ==
    { PackU16(OPCODE_RRQ) \o PathF \o << NUL >> \o AsciiOctet \o << NUL >>,
      PackU16(OPCODE_RRQ) \o PathF \o << NUL >> \o AsciiNetascii \o << NUL >>
          \o KeyBlksize \o << NUL >> \o Str8 \o << NUL >>,
      PackU16(OPCODE_WRQ) \o PathF \o << NUL >> \o AsciiOctet \o << NUL >> }

OtherDatagrams ==
    { << 0, 3, 0, 1, 65 >>, << 0, 4, 0, 1 >>, << 0, 5, 0, 1, 0 >>, << 0, 9 >>,
      PackU16(OPCODE_OACK) \o KeyBlksize \o << NUL >> \o Str8 \o << NUL >>,
      PackU16(OPCODE_RRQ), PackU16(OPCODE_RRQ) \o PathF \o << NUL >>,
      PackU16(OPCODE_RRQ) \o PathF \o << NUL >> \o AsciiOctet \o << NUL >>
          \o KeyBlksize \o << NUL >>,
      << >>, << 0 >> }

InitServer ==
    /\ req = [opcode |-> OPCODE_RRQ, mode |-> MODE_BINARY, options |-> {}]
    /\ file = [factory |-> "ok", content |-> << >>, sizeKnown |-> TRUE]
    /\ retries \in {0, MaxRetries}
    /\ timeout = MaxTimeout
    /\ blksize = DEFAULT_BLKSIZE
    /\ options = {}
    /\ cur_packet = NoPacket
    /\ retransmits = 0
    /\ should_stop = FALSE
    /\ listener = "none"
    /\ target = NoTarget
    /\ pc = "init"
    /\ timer = 0
    /\ outcome = "running"
    /\ log = << >>
    /\ ev = NoEvent

NextServer ==
    \E data \in RequestDatagrams \cup OtherDatagrams : \E peer \in Peers :
        HandleRequest(data, peer)

SpecServer == InitServer /\ [][NextServer]_vars

(***************************************************************************)
(* Properties.                                                             *)
(***************************************************************************)
IsRead == req.opcode = OPCODE_RRQ
IsWrite == req.opcode = OPCODE_WRQ

\* the packets handed to sendto, in order
SentLog(lg) == SelectSeq(lg, LAMBDA e : e.act = "send")
Last(s) == s[Len(s)]

\* the block number an ACK of packet p carries: 0 for an OACK
AckedBy(p) == IF p.op = OPCODE_OACK THEN 0 ELSE p.block

\* the step sent a packet that differs from the one sent before it
SendsNew(op) ==
    /\ Len(SentLog(log')) = Len(SentLog(log)) + 1
    /\ Last(SentLog(log')).pkt.op = op
    /\ SentLog(log) # << >>
    /\ Last(SentLog(log')).pkt # Last(SentLog(log)).pkt

\* the step took a well-formed ACK with block number n, sent by the peer,
\* from the socket
ReceivedAck(n) ==
    /\ ev'.t = "recv"
    /\ ev'.from = SessionPeer
    /\ ev'.raw = AckRaw(n)

\* C1: in a read session a DATA packet with a new block number is sent only
\* in the step that receives, from the session peer, the ACK of the packet
\* sent before it (block 0 for the OACK): DATA(n+1) never precedes ACK(n).
C1_LockStep ==
    [][ (IsRead /\ SendsNew(OPCODE_DATA))
          => ReceivedAck(AckedBy(Last(SentLog(log)).pkt)) ]_vars

\* a read session has sent DATA(2) after DATA(1) was retransmitted
C1_Witness ==
    /\ IsRead
    /\ \E i \in 1..Len(log) : log[i].pkt.op = OPCODE_DATA /\ log[i].retx
    /\ Len(log) > 0 /\ Last(log).pkt.op = OPCODE_DATA /\ Last(log).pkt.block = 2

\* the NetASCII encoding of a byte string: LF becomes CR LF, CR becomes CR NUL
RECURSIVE NetasciiEncoding(_)
NetasciiEncoding(bytes) ==
    IF bytes = << >> THEN << >>
    ELSE LET front == SubSeq(bytes, 1, Len(bytes) - 1)
             b == bytes[Len(bytes)]
         IN  NetasciiEncoding(front) \o
                (CASE b = LF -> << CR, LF >> [] b = CR -> << CR, NUL >> [] OTHER -> << b >>)

\* the bytes the target of the read session holds
Stream == IF req.mode = MODE_NETASCII THEN NetasciiEncoding(file.content) ELSE file.content

\* the k-th chunk of B bytes of a byte string
Chunk(bytes, k, B) == SubSeq(bytes, (k - 1) * B + 1, Min(k * B, Len(bytes)))

\* the distinct DATA packets of a log: a retransmission repeats the packet
\* sent before it
DistinctData(lg) ==
    LET snt == SentLog(lg)
        idx == { i \in 1..Len(snt) : /\ snt[i].pkt.op = OPCODE_DATA
                                      /\ (i > 1 => snt[i].pkt # snt[i - 1].pkt) }
        f[i \in 0..Len(snt)] ==
            IF i = 0 THEN << >>
            ELSE IF i \in idx THEN Append(f[i - 1], snt[i].pkt) ELSE f[i - 1]
    IN  f[Len(snt)]

\* the number of DATA blocks a transfer of n bytes in blocks of B takes
BlockCount(n, B) == (n \div B) + 1

\* C2: the distinct DATA blocks a read session sends are, in order, the
\* consecutive blksize-byte chunks of the target, numbered from 1; a session
\* that ends normally has sent floor(n/B) full blocks and one final block of
\* n mod B bytes, nothing after it, and ends in the step that takes the ACK of
\* that final block.
C2_Chunks ==
    IsRead =>
        LET d == DistinctData(log)
            n == Len(Stream)
        IN  /\ Len(d) <= BlockCount(n, blksize)
            /\ \A i \in 1..Len(d) : d[i].block = i /\ d[i].data = Chunk(Stream, i, blksize)
            /\ outcome = "normal" =>
                  /\ Len(d) = BlockCount(n, blksize)
                  /\ \A i \in 1..(n \div blksize) : Len(d[i].data) = blksize
                  /\ Len(d[Len(d)].data) = n % blksize
                  /\ ev = RecvEvent(AckRaw(BlockCount(n, blksize)), SessionPeer)

\* a netascii read session ended normally after two full blocks and a short one
C2_Witness ==
    /\ IsRead
    /\ outcome = "normal"
    /\ req.mode = MODE_NETASCII
    /\ blksize = MIN_BLKSIZE
    /\ Len(DistinctData(log)) = 3
    /\ Len(Last(log).pkt.data) \in 1..(MIN_BLKSIZE - 1)

\* a read session ended normally with a zero-length final block
C2_WitnessEmptyFinal ==
    /\ IsRead
    /\ outcome = "normal"
    /\ Len(Stream) = MIN_BLKSIZE
    /\ blksize = MIN_BLKSIZE

\* the number of copies of the last sent packet at the end of the log
RECURSIVE TrailingCopies(_)
TrailingCopies(snt) ==
    IF Len(snt) <= 1 THEN Len(snt)
    ELSE IF snt[Len(snt) - 1].pkt = snt[Len(snt)].pkt
         THEN 1 + TrailingCopies(SubSeq(snt, 1, Len(snt) - 1))
         ELSE 1

\* C3: in a read session each timeout of a wait retransmits the outstanding
\* packet and counts it, as long as fewer than `retries` retransmissions were
\* made; the timeout after that ends the session with TransmitTimeout and
\* sends nothing.  The outstanding packet is never sent more than
\* retries + 1 times and a session that timed out sent neither a DATA nor an
\* ERROR after its last retransmission.
C3_Retransmit ==
    /\ [](IsRead /\ pc # "init" /\ log # << >> =>
            /\ retransmits <= retries
            /\ (outcome \in {"running", "timeout"} =>
                  /\ TrailingCopies(SentLog(log)) = retransmits + 1
                  /\ Last(log).pkt = cur_packet)
            /\ (outcome = "timeout" => retransmits = retries))
    /\ [][ (IsRead /\ ev'.t = "timeout") =>
             IF retransmits < retries
             THEN /\ log' = Append(log, [Last(log) EXCEPT !.retx = TRUE])
                  /\ retransmits' = retransmits + 1
                  /\ pc' = "wait"
             ELSE /\ log' = log
                  /\ outcome' = "timeout"
                  /\ pc' = "done" ]_vars
    /\ [][ pc = "done" => log' = log ]_vars

\* the final DATA was retransmitted `retries` times during the last wait and
\* the session timed out
C3_Witness ==
    /\ IsRead
    /\ outcome = "timeout"
    /\ should_stop
    /\ retries = MaxRetries
    /\ TrailingCopies(SentLog(log)) = retries + 1

\* the step took datagram raw, sent by the session peer, from the socket
ReceivedFromPeer(raw) ==
    /\ ev'.t = "recv"
    /\ ev'.from = SessionPeer
    /\ ev'.raw = raw

\* C4: a session that receives a well-formed ERROR packet from its peer
\* terminates and sends nothing in reply.
C4_NoReplyToPeerError ==
    [][ \A raw \in PeerErrors :
          ReceivedFromPeer(raw) => (log' = log /\ pc' = "done") ]_vars

\* option k is requested with an integer value in lo..hi
OptionIn(k, lo, hi) ==
    /\ HasOption(req.options, k)
    /\ PyInt(OptionValue(req.options, k)).ok
    /\ PyInt(OptionValue(req.options, k)).val \in lo..hi

\* the target of the read session reports a size: the NetasciiReader of the
\* netascii mode always does
TargetReportsSize == req.mode = MODE_NETASCII \/ file.sizeKnown

\* at least one requested option is accepted by a read session
ReadAccepted ==
    \/ OptionIn("blksize", MIN_BLKSIZE, MAX_BLKSIZE)
    \/ OptionIn("timeout", MIN_TIMEOUT, MAX_TIMEOUT)
    \/ (HasOption(req.options, "tsize") /\ TargetReportsSize)

\* a requested blksize or timeout is not an integer of its range
ReadRejected ==
    \/ (HasOption(req.options, "blksize") /\ ~OptionIn("blksize", MIN_BLKSIZE, MAX_BLKSIZE))
    \/ (HasOption(req.options, "timeout") /\ ~OptionIn("timeout", MIN_TIMEOUT, MAX_TIMEOUT))

\* a requested tsize is a non-negative integer
TsizeValid ==
    /\ HasOption(req.options, "tsize")
    /\ PyInt(OptionValue(req.options, "tsize")).ok
    /\ PyInt(OptionValue(req.options, "tsize")).val >= 0

\* at least one requested option is accepted by a write session
WriteAccepted ==
    \/ OptionIn("blksize", MIN_BLKSIZE, MAX_BLKSIZE)
    \/ OptionIn("timeout", MIN_TIMEOUT, MAX_TIMEOUT)
    \/ TsizeValid

\* a requested blksize, timeout or tsize of a write session is invalid
WriteRejected ==
    \/ ReadRejected
    \/ (HasOption(req.options, "tsize") /\ ~TsizeValid)

\* the request carries an option value that its session rejects
Rejected == IF IsRead THEN ReadRejected ELSE WriteRejected

\* the ERROR packets of a log
ErrorsSent(lg) == SelectSeq(SentLog(lg), LAMBDA e : e.pkt.op = OPCODE_ERROR)

\* the code of the Error the session raised itself, from what made it raise:
\* an invalid option at the start, a datagram of another sender, or a
\* datagram of the peer that is neither the expected packet nor an ERROR
LocalErrorCode(e) ==
    IF e.t = "start" THEN INVALID_OPTIONS
    ELSE IF e.from # SessionPeer THEN UNDEFINED
    ELSE ILLEGAL_OPERATION

\* the session raised an Error of its own: it ended in the except Error
\* clause, not on the ERROR packet of the peer, or _apply_options rejected an
\* option of the request
LocalErrorRaised ==
    \/ /\ outcome = "error"
       /\ ~(ev.t = "recv" /\ ev.from = SessionPeer /\ ev.raw \in PeerErrors)
    \/ /\ pc = "done"
       /\ ev.t = "start"
       /\ file.factory = "ok"
       /\ Rejected

\* C5: a session that raised an Error locally has sent exactly one ERROR
\* packet, to the session peer, with the code of that Error, and it is the
\* last packet of the session.
C5_LocalErrorSentOnce ==
    /\ [](LocalErrorRaised =>
            /\ pc = "done"
            /\ Len(ErrorsSent(log)) = 1
            /\ Last(log).act = "send"
            /\ Last(log).to = SessionPeer
            /\ Last(log).pkt.op = OPCODE_ERROR
            /\ Last(log).pkt.code = LocalErrorCode(ev))
    /\ [][ pc = "done" => log' = log ]_vars

C7_StaleAckDiscarded ==
    [][ \A n \in PeerBlocks :
          (IsRead /\ ReceivedFromPeer(AckRaw(n)) /\ n # AckedBy(Last(SentLog(log)).pkt)) =>
              /\ log' = log
              /\ retransmits' = retransmits
              /\ timer' = timer
              /\ cur_packet' = cur_packet
              /\ target' = target
              /\ pc' = "wait" ]_vars

\* a stale ACK was discarded in a wait that had a retransmission behind it
\* and a second of the current timeout elapsed
C7_Witness ==
    /\ IsRead
    /\ pc = "wait"
    /\ ev.t = "recv"
    /\ ev.from = SessionPeer
    /\ ev.raw = AckRaw(1)
    /\ cur_packet.op = OPCODE_DATA /\ cur_packet.block = 2
    /\ retransmits = 1
    /\ timer = 1

\* the payloads handed to the target of a write session, in order
Writes(lg) == SelectSeq(lg, LAMBDA e : e.act = "write")

\* the concatenation of the payloads of a sequence of log entries
RECURSIVE Payloads(_)
Payloads(es) == IF es = << >> THEN << >> ELSE es[1].pkt.data \o Payloads(Tail(es))

\* the block number a write session waits for, from what it sent last:
\* the last acknowledged block + 1, or 1 after the OACK or ACK(0)
WantedBlock(lg) == AckedBy(Last(SentLog(lg)).pkt) + 1

\* the step took, from the peer, the DATA packet with block n and payload d
ReceivedData(n, d) == ReceivedFromPeer(DataRaw(n, d))

C9_ShortBlockEnds ==
    [][ \A n \in 1..3, d \in PeerPayloads :
          (IsWrite /\ ReceivedData(n, d) /\ n = WantedBlock(log)) =>
              /\ Len(d) < blksize =>
                    /\ log' = log \o << Wrote(Data(n, d)), Sent(ACK(n), FALSE) >>
                    /\ pc' = "done"
                    /\ outcome' = "normal"
              /\ Len(d) = blksize => pc' = "wait" ]_vars

OackSent(lg) == \E i \in 1..Len(lg) : lg[i].act = "send" /\ lg[i].pkt.op = OPCODE_OACK

\* after an OACK the first DATA is block 1, sent in the step that takes ACK(0)
FirstDataAfterAck0 ==
    [][ (IsRead /\ log # << >> /\ Last(log).pkt.op = OPCODE_OACK
            /\ log' # log /\ Last(log').pkt.op = OPCODE_DATA)
          => (ReceivedAck(0) /\ Last(log').pkt.block = 1) ]_vars

C11_FirstPacketAndBlock ==
    /\ [](IsWrite /\ pc # "init" /\ file.factory = "ok" /\ ~WriteRejected =>
            /\ log # << >>
            /\ log[1].act = "send"
            /\ WriteAccepted => log[1].pkt.op = OPCODE_OACK
            /\ ~WriteAccepted => log[1].pkt = ACK(0))
    /\ [][ \A n \in 1..3, d \in PeerPayloads :
             (IsWrite /\ ReceivedData(n, d) /\ Writes(log) = << >>) =>
                 IF n = 1
                 THEN /\ Len(log') = Len(log) + 2
                      /\ log'[Len(log) + 1].act = "write"
                      /\ log'[Len(log) + 1].pkt.block = 1
                      /\ log'[Len(log) + 2] = Sent(ACK(1), FALSE)
                 ELSE /\ log' = log
                      /\ pc' = "wait" ]_vars

\* the block number that follows block n
Successor(n) == IF n = MAX_BLOCK_NUMBER THEN 1 ELSE n + 1

\* the DATA sent last has block number 1 and follows block MAX_BLOCK_NUMBER
Wrapped(lg) ==
    /\ Last(lg).pkt.op = OPCODE_DATA
    /\ Last(lg).pkt.block = 1
    /\ \E i \in 1..Len(lg) : lg[i].pkt.op = OPCODE_DATA /\ lg[i].pkt.block = MAX_BLOCK_NUMBER

\* C12: in a read session the block number of each new DATA is the successor
\* of the block number of the DATA before it, and the successor of 65535 is 1;
\* a DATA with block number 0 is never sent; after the wrap the session takes
\* ACK(1), and no other ACK, as the acknowledgement of the outstanding block.
C12_BlockWrap ==
    /\ [][ (IsRead /\ log # << >> /\ Last(log).pkt.op = OPCODE_DATA /\ SendsNew(OPCODE_DATA))
             => Last(log').pkt.block = Successor(Last(log).pkt.block) ]_vars
    /\ [](\A i \in 1..Len(log) :
            log[i].pkt.op = OPCODE_DATA => log[i].pkt.block \in 1..MAX_BLOCK_NUMBER)
    /\ [][ \A n \in {0, 1, 2, MAX_BLOCK_NUMBER - 1, MAX_BLOCK_NUMBER} :
             (IsRead /\ log # << >> /\ Wrapped(log) /\ ReceivedAck(n)) =>
                 IF n = 1
                 THEN \/ SendsNew(OPCODE_DATA) /\ Last(log').pkt.block = 2
                      \/ log' = log /\ outcome' = "normal"
                 ELSE log' = log /\ pc' = "wait" /\ cur_packet' = cur_packet ]_vars

\* a read session sent blocks 65535, 1 and 2 and ended with ACK(2)
C12_Witness ==
    /\ IsRead
    /\ outcome = "normal"
    /\ Len(DistinctData(log)) >= 3
    /\ LET d == DistinctData(log)
       IN  /\ d[Len(d) - 2].block = MAX_BLOCK_NUMBER
           /\ d[Len(d) - 1].block = 1
           /\ d[Len(d)].block = 2
    /\ ev = RecvEvent(AckRaw(2), SessionPeer)

\* the session sent one packet, an ERROR with the given code to the peer, and
\* ended
OnlyError(code) ==
    /\ pc = "done"
    /\ Len(log) = 1
    /\ log[1].act = "send"
    /\ log[1].to = SessionPeer
    /\ log[1].pkt.op = OPCODE_ERROR
    /\ log[1].pkt.code = code

\* C13: a session (whose target was acquired) whose request carries a
\* blksize that is not an integer of 8..65464, a timeout that is not an
\* integer of 1..255 or, for a WRQ, a tsize that is not a non-negative
\* integer sends ERROR code 8 to the peer and terminates, and sends no OACK,
\* DATA or ACK, whatever the other options are.
C13_InvalidOptions ==
    /\ [](pc # "init" /\ file.factory = "ok" /\ Rejected => OnlyError(INVALID_OPTIONS))
    /\ [][ pc = "done" => log' = log ]_vars

\* C14: a read session whose target factory fails because the file does not
\* exist sends ERROR code 1 to the peer, and nothing else, and closes.
C14_FileNotFound ==
    (IsRead /\ file.factory = "OSError" /\ pc # "init") => OnlyError(FILE_NOT_FOUND)

\* C15: a session whose target factory fails with an I/O fault that is not a
\* TFTP Error sends ERROR code 0 to the peer and terminates.
C15_IoFault ==
    (file.factory = "IOError" /\ pc # "init") => OnlyError(UNDEFINED)

\* datagrams that are neither an ACK, nor a DATA with a block number >= 1,
\* nor an ERROR with a valid code: an RRQ, an OACK, a DATA with block number
\* 0, an ACK of 5 bytes, an ERROR-opcode packet with code 9, an unknown
\* opcode
NotAPacket ==
    { << 0, 1, 102, 0, 111, 99, 116, 101, 116, 0 >>,
      << 0, 6, 116, 115, 105, 122, 101, 0, 48, 0 >>,
      << 0, 3, 0, 0 >>, << 0, 4, 0, 1, 0 >>, << 0, 5, 0, 9, 0 >>, << 0, 9 >> }

\* truncated datagrams: no byte at all, an opcode alone
Truncated == { << >>, << 0, 5 >>, << 0, 3 >> }

\* the step sent ERROR code 4 to the peer and ended the session
EndsWithIllegalOperation ==
    /\ log' = Append(log, Sent(Error(ILLEGAL_OPERATION, << >>), FALSE))
    /\ pc' = "done"

\* C16: a datagram of the session peer that is neither the expected packet
\* type nor an ERROR (an RRQ, an OACK, a DATA with block number 0, an ACK
\* whose length is not 4, an ERROR-opcode packet with an invalid code, a
\* truncated datagram) makes the session send ERROR code 4 and terminate.
C16_MalformedGetsError4 ==
    [][ \A raw \in NotAPacket \cup Truncated :
          ReceivedFromPeer(raw) => EndsWithIllegalOperation ]_vars

(***************************************************************************)
(* C17  Release on every exit path.                                        *)
(***************************************************************************)
\* the ways run() can end
ExitPaths == {"normal", "error", "peer_error", "timeout"}

\* C17: whenever run() has ended, on whichever path (normal completion, a
\* locally raised error, a peer ERROR, retransmit exhaustion or an exception
\* no except clause catches), the socket is closed and so is the target if the
\* factory delivered one; and once either is closed nothing is sent, read or
\* written any more.
C17_ClosedOnExit ==
    /\ [](pc = "done" =>
            /\ listener = "closed"
            /\ target.st = (IF file.factory = "ok" THEN "closed" ELSE "none"))
    /\ [][ (listener = "closed" \/ target.st = "closed") =>
              /\ log' = log
              /\ target' = target
              /\ listener' = listener ]_vars

\* a session that has sent packets ends by an exception run() does not catch,
\* with its socket and its target closed
C17_Witness ==
    /\ pc = "done"
    /\ outcome \notin ExitPaths
    /\ file.factory = "ok"
    /\ Len(log) > 0
    /\ listener = "closed"
    /\ target.st = "closed"

(***************************************************************************)
(* C18  run() returns normally.                                            *)
(***************************************************************************)
\* C18: whatever the peer and the network do (lost, duplicated, stale,
\* malformed, truncated or wrong-peer datagrams, a peer that disappears),
\* run() ends by returning normally, on one of its four exit paths, and does
\* not propagate an exception.  Stated for the sessions whose request gave
\* no cause to fail: the target was delivered and no option is invalid.
C18_ReturnsNormally ==
    (pc = "done" /\ file.factory = "ok" /\ ~Rejected) => outcome \in ExitPaths

(***************************************************************************)
(* C19  Retransmission in a write session.                                 *)
(***************************************************************************)
\* C19: in a write session each timeout of the wait for the expected DATA
\* retransmits the last sent ACK or OACK and counts it, as long as fewer than
\* `retries` retransmissions were made for that block; the timeout after that
\* ends the session with TransmitTimeout and sends nothing; and accepting the
\* expected DATA sets the counter back to 0.
C19_WriteRetransmit ==
    /\ [][ (IsWrite /\ ev'.t = "timeout") =>
             IF retransmits < retries
             THEN /\ log' = Append(log, [Last(SentLog(log)) EXCEPT !.retx = TRUE])
                  /\ retransmits' = retransmits + 1
                  /\ pc' = "wait"
             ELSE /\ log' = log
                  /\ outcome' = "timeout"
                  /\ pc' = "done" ]_vars
    /\ [][ (IsWrite /\ Len(Writes(log')) > Len(Writes(log))) => retransmits' = 0 ]_vars

(***************************************************************************)
(* C20  NetasciiWriter.write.                                              *)
(***************************************************************************)
\* the plain bytes of a NetASCII buffer: CR LF is LF, CR NUL is CR, every
\* other byte is itself
RECURSIVE NetasciiDecoding(_)
NetasciiDecoding(bytes) ==
    IF bytes = << >> THEN << >>
    ELSE IF Len(bytes) >= 2 /\ bytes[1] = CR /\ bytes[2] = LF
         THEN << LF >> \o NetasciiDecoding(Drop(bytes, 2))
    ELSE IF Len(bytes) >= 2 /\ bytes[1] = CR /\ bytes[2] = NUL
         THEN << CR >> \o NetasciiDecoding(Drop(bytes, 2))
    ELSE << bytes[1] >> \o NetasciiDecoding(Tail(bytes))

\* C20: NetasciiWriter.write decodes the buffer it is given (CR LF becomes
\* LF, CR NUL becomes CR, every other byte is unchanged) and writes the
\* result to the underlying target, for every buffer of any length and any
\* final byte: the step that takes the awaited DATA with payload d appends the
\* decoding of d to what the target holds.
C20_WriterDecodes ==
    [][ \A d \in Buffers :
          (req.mode = MODE_NETASCII /\ pc = "wait" /\ ReceivedData(WantedBlock(log), d))
            => target'.written = target.written \o NetasciiDecoding(d) ]_vars

(***************************************************************************)
(* C21  NetasciiReader.read.                                               *)
(***************************************************************************)
\* the results of the read calls of a call history, concatenated
RECURSIVE ReadSoFar(_)
ReadSoFar(lg) ==
    IF lg = << >> THEN << >>
    ELSE IF lg[1].t = "read" THEN lg[1].raw \o ReadSoFar(Tail(lg))
    ELSE ReadSoFar(Tail(lg))

\* the read call whose result is empty has been made
ReadToEnd == \E i \in 1..Len(log) : log[i] = ReadCall(<< >>)

\* C21: for any content and any fixed positive read size, the results of the
\* successive read(size) calls, up to the first empty one, concatenate to the
\* NetASCII encoding of the content; each result has at most `size` bytes;
\* what overflowed is kept in the residual buffer and is the start of the next
\* result; and a read returns nothing only when the content and the residual
\* buffer are both exhausted.
C21_ReaderEncodes ==
    /\ [](/\ Len(ReadSoFar(log)) <= Len(NetasciiEncoding(file.content))
          /\ ReadSoFar(log) = Take(NetasciiEncoding(file.content), Len(ReadSoFar(log)))
          /\ (ReadToEnd => ReadSoFar(log) = NetasciiEncoding(file.content)))
    /\ [][ ev'.t = "read" =>
              /\ Len(ev'.raw) <= blksize
              /\ (~target.slurped =>
                    Take(ev'.raw, Len(target.buffer)) = Take(target.buffer, blksize))
              /\ (ev'.raw = << >> =>
                    /\ target.buffer = << >>
                    /\ target.pos = Len(target.content)) ]_vars

\* a content whose encoding overflowed the read size has been read to its end
\* without a size() call
C21_Witness ==
    /\ ReadToEnd
    /\ \A i \in 1..Len(log) : log[i].t = "read"
    /\ file.content = << 65, LF, 65, CR >>
    /\ blksize = 2
    /\ Len(log) = 4

(***************************************************************************)
(* C22  NetasciiReader.size.                                               *)
(***************************************************************************)
\* size() has been called
SizeCalled == \E i \in 1..Len(log) : log[i].t = "size"

C23_RoundTrip ==
    [][ (ev'.t = "parse" /\ ev'.raw = Raw(cur_packet) /\ ev'.from \in ClassesOf(cur_packet))
          => /\ log'[1].tag = "pkt"
             /\ PacketEq(log'[1].pkt, cur_packet) ]_vars

(***************************************************************************)
(* C24  Malformed byte strings.                                            *)
(***************************************************************************)
\* C24: for every malformed byte string (opcode outside 1..6, shorter than
\* the fixed header, missing NULs, odd number of option tokens, a request
\* mode other than netascii and octet, an ERROR code above 8, an OACK with an
\* empty option list) the parser reports an invalid packet (None in safe
\* mode) and fails with no other exception.
C24_MalformedIsInvalid ==
    [][ \A m \in MalformedInputs :
          ev' = ParseCall(m[1], m[2]) => log'[1] = ParseNone ]_vars

(***************************************************************************)
(* C25  Datagrams that are no request.                                     *)
(***************************************************************************)
\* a well-formed RRQ or WRQ: an opcode 1 or 2 and, after it, an even number
\* of at least two tokens
WellFormedRequest(raw) ==
    /\ Len(raw) >= 2
    /\ U16(Take(raw, 2)) \in {OPCODE_RRQ, OPCODE_WRQ}
    /\ Len(Tokens(Drop(raw, 2), << >>)) >= 2
    /\ Len(Tokens(Drop(raw, 2), << >>)) % 2 = 0

\* C25: a datagram on the well-known port that is not a well-formed RRQ or
\* WRQ (another opcode, fewer than two tokens, an odd token count, too short
\* for an opcode) is discarded: no handler is obtained, no session runs,
\* nothing is sent in reply, and the dispatcher goes on to handle the
\* datagrams that arrive later.  get_hanlder is not even called.
C25_Discarded ==
    /\ [][ (ev'.t = "request" /\ ~WellFormedRequest(ev'.raw)) =>
              /\ log' = Append(log, Last(log'))
              /\ Last(log').raw = ev'.raw
              /\ Last(log').handler = "not asked"
              /\ ~Last(log').session
              /\ Last(log').sent = << >>
              /\ pc' = "init" /\ listener' = "none" /\ target' = NoTarget ]_vars
    /\ [](Len(log) < MaxDatagrams =>
            \A data \in RequestDatagrams \cup OtherDatagrams :
                ENABLED HandleRequest(data, SessionPeer))

\* a datagram too short for an opcode was discarded and a datagram was
\* handled after it
C25_Witness ==
    /\ Len(log) = 2
    /\ log[1].raw = << 0 >>
    /\ log[1].handler = "not asked"
    /\ log[2].raw \in RequestDatagrams

(***************************************************************************)
(* C28  One session per request.                                           *)
(***************************************************************************)
\* C28: each valid request datagram on the well-known port gives rise to
\* exactly one session (a duplicate of the request to a second one): the
\* dispatcher obtains a handler for it and calls its run().
C28_OneSessionPerRequest ==
    [][ (ev'.t = "request" /\ ev'.raw \in RequestDatagrams) =>
          /\ log' = Append(log, Last(log'))
          /\ Last(log').raw = ev'.raw
          /\ Last(log').handler = "obtained"
          /\ Last(log').session ]_vars

(***************************************************************************)
(* C26  Block numbers of a write session.                                  *)
(***************************************************************************)
\* C26: in a write session the expected DATA block number stays within
\* 1..65535: after the session has acknowledged block 65535 the expected
\* number wraps, as in the read session, to 1, and the transfer goes on: the
\* DATA with block 1 that follows is written and acknowledged.
C26_WriteBlockWrap ==
    /\ [](IsWrite /\ pc = "wait" => WriteExpectedBlockNum(cur_packet) \in 1..MAX_BLOCK_NUMBER)
    /\ [][ \A d \in WrapPayloads :
              (IsWrite /\ ~target.netascii /\ pc = "wait"
                 /\ cur_packet = ACK(MAX_BLOCK_NUMBER) /\ ReceivedData(1, d))
                => log' = log \o << Wrote(Data(1, d)), Sent(ACK(1), FALSE) >> ]_vars

(***************************************************************************)
(* C27  A CR pair split across two writes.                                 *)
(***************************************************************************)
\* the first buffer written ends with the CR of a pair
PairSplit == Len(log) >= 1 /\ log[1].raw # << >> /\ Last(log[1].raw) = CR

\* C27: when a buffer ends with the CR of a pair and the next one begins with
\* its LF or NUL, the decoder defers the CR: no write fails, and after
\* write(a) and write(b) the target holds the decoding of a followed by b.
C27_SplitPair ==
    PairSplit =>
        /\ outcome = "running"
        /\ (Len(log) = 2 =>
              target.written = NetasciiDecoding(log[1].raw \o log[2].raw))

(***************************************************************************)
(* C29  The retransmit counter.                                            *)
(***************************************************************************)
\* the step takes from the peer the packet the session waits for: the ACK of
\* the packet sent last (read) or the DATA after the block acknowledged last
\* (write)
ExpectedAccepted ==
    /\ ev'.t = "recv"
    /\ ev'.from = SessionPeer
    /\ pc = "wait"
    /\ IF IsRead
       THEN ev'.raw = AckRaw(AckedBy(Last(SentLog(log)).pkt))
       ELSE /\ Len(ev'.raw) >= 4
            /\ Take(ev'.raw, 4) = PackU16(OPCODE_DATA) \o PackU16(WantedBlock(log))

\* how often a packet was sent
TimesSent(lg, packet) ==
    Cardinality({ i \in 1..Len(lg) : lg[i].act = "send" /\ lg[i].pkt = packet })

\* C29: in every state of a read or write session 0 <= retransmits <=
\* retries; the counter goes up only by one, in a timeout step that retransmits
\* the last packet, and goes down only to 0, in a step that accepts the
\* expected ACK or DATA; so no packet is sent more than retries + 1 times.
C29_Counter ==
    /\ [](/\ 0 <= retransmits
          /\ retransmits <= retries
          /\ \A i \in 1..Len(log) :
                log[i].act = "send" => TimesSent(log, log[i].pkt) <= retries + 1)
    /\ [][ retransmits' > retransmits =>
              /\ retransmits' = retransmits + 1
              /\ ev'.t = "timeout"
              /\ log' = Append(log, [Last(SentLog(log)) EXCEPT !.retx = TRUE]) ]_vars
    /\ [][ retransmits' < retransmits =>
              /\ retransmits' = 0
              /\ ExpectedAccepted ]_vars

\* a packet was retransmitted `retries` times, its ACK then arrived and the
\* counter is back at 0 with the next DATA sent
C29_Witness ==
    /\ IsRead
    /\ pc = "wait"
    /\ retries = MaxRetries
    /\ retransmits = 0
    /\ ev.t = "recv"
    /\ Len(log) >= 3
    /\ log[Len(log) - 1].retx
    /\ ~Last(log).retx
    /\ Last(log).pkt.op = OPCODE_DATA

(***************************************************************************)
(* C30  What a read session does to its target.                            *)
(***************************************************************************)
\* the number of read() calls the session made on its target
ReadsOf(t) == IF t.st = "none" THEN 0 ELSE t.reads

\* the step left the target as it was, or closed it on the way out of run()
TargetUntouched == target' = target \/ target' = TargetClose(target)

\* the step sent one new DATA block, the successor of the packet sent last
ProducesData ==
    /\ Len(log') = Len(log) + 1
    /\ Last(log').act = "send"
    /\ ~Last(log').retx
    /\ Last(log').pkt.op = OPCODE_DATA
    /\ Last(log').pkt.block = NextBlockNum(cur_packet)

====
